---- MODULE Spec2Model ----
(***************************************************************************)
(* Candidate-job match scoring and match lifecycle of AI Recruiter Pro.    *)
(*                                                                         *)
(* The match row is the candidate_job_matches table (CandidateJobMatch in  *)
(* src/models/matching.py for the score columns and the unique constraint, *)
(* src/app/models/matching.py for the status column); the history row is   *)
(* MatchHistory (src/models/match.py).  The scoring is                     *)
(* CandidateJobMatch.calculate_match_score.  The operations that write the *)
(* rows (computeAndStore, transition, append) follow sections 4.4-4.6 and  *)
(* 7 of the design specification.                                          *)
(*                                                                         *)
(* Beside the match operations (Spec, and ScoreSpec, UpsertSpec and        *)
(* DeleteSpec for one call over all inputs, racing calls and deletions)    *)
(* the module holds the second scoring implementation,                     *)
(* JobCandidateMatch.calculate_score of src/models/match.py (TwinSpec),    *)
(* and the two implementations of the candidate's processing-status        *)
(* transition, src/models/candidate.py and src/models/candidate_status.py  *)
(* (CandidateSpec).                                                        *)
(*                                                                         *)
(* Floats are fixed-point integers: the float 1.0 is Scale.  Scale is a    *)
(* multiple of every denominator the bounded inputs produce (tenths for    *)
(* the weights, set sizes up to 4 for Jaccard, norm products 25 for the    *)
(* embeddings, whose norms are whole numbers), so the arithmetic is exact. *)
(***************************************************************************)
EXTENDS Integers, Sequences, FiniteSets, TLC

\* ---------------------------------------------------------------- bounds
NumCallers == 2
MaxOps == 3

Callers == 1..NumCallers
CandidateIds == {1, 2}
JobIds == {1}
Actors == {7}
Notes == {"", "called"}

\* ------------------------------------------------------- representation
Scale == 10 * 12 * 25
NoScore == -1
NoStatus == "None"
NoUser == 0
NoData == [none |-> TRUE]

Max(a, b) == IF a >= b THEN a ELSE b
Min(a, b) == IF a <= b THEN a ELSE b

\* ------------------------------------------------------- skill overlap
\* str.lower() on the skill names the inputs use.
Lower(s) ==
    CASE s = "Python" -> "python"
      [] s = "SQL" -> "sql"
      [] s = " Go" -> " go"
      [] OTHER -> s

\* str.strip() on the skill names the inputs use.
Strip(s) ==
    CASE s = " Go" -> "Go"
      [] s = " go" -> "go"
      [] OTHER -> s

\* Candidate.skills_array: the stored list, as it is.
CandidateSkillsArray(candidate) == candidate.skills_array

\* Job.skills_array: the comma-split items of required_skills, each stripped.
JobSkillsArray(job) == {Strip(s) : s \in job.required_skills}

\* CandidateJobMatch._calculate_skills_match
CalculateSkillsMatch(candidate, job) ==
    LET candidate_skills == {Lower(s) : s \in CandidateSkillsArray(candidate)}
        job_skills == {Lower(s) : s \in JobSkillsArray(job)}
        intersection == Cardinality(candidate_skills \cap job_skills)
        union == Cardinality(candidate_skills \cup job_skills)
    IN IF candidate_skills = {} \/ job_skills = {}
       THEN 0
       ELSE IF union > 0 THEN (Scale * intersection) \div union ELSE 0

\* ------------------------------------------------- embedding similarity
RECURSIVE DotUpTo(_, _, _)
DotUpTo(a, b, n) == IF n = 0 THEN 0 ELSE a[n] * b[n] + DotUpTo(a, b, n - 1)

\* np.dot of two 1-d arrays of the same length.
Dot(a, b) == DotUpTo(a, b, Len(a))

\* np.dot accepting arrays of any two lengths.
DotRaisesNever(a, b) == FALSE

\* np.dot raises ValueError on 1-d arrays of different lengths.
DotRaises(a, b) == Len(a) # Len(b)

\* np.linalg.norm; the inputs have whole-number norms.
Norm(a) ==
    LET n == Dot(a, a)
    IN CHOOSE r \in 0..n : r * r <= n /\ (r + 1) * (r + 1) > n

\* _calculate_embedding_match returning the cosine as it is.
CalculateEmbeddingMatchUnclamped(candidate_embedding, job_embedding) ==
    LET dot_product == Dot(candidate_embedding, job_embedding)
        norm_candidate == Norm(candidate_embedding)
        norm_job == Norm(job_embedding)
    IN IF norm_candidate = 0 \/ norm_job = 0
       THEN 0
       ELSE (Scale * dot_product) \div (norm_candidate * norm_job)

\* CandidateJobMatch._calculate_embedding_match (both vectors of one length)
CalculateEmbeddingMatch(candidate_embedding, job_embedding) ==
    LET dot_product == Dot(candidate_embedding, job_embedding)
        norm_candidate == Norm(candidate_embedding)
        norm_job == Norm(job_embedding)
    IN IF norm_candidate = 0 \/ norm_job = 0
       THEN 0
       ELSE Max(0, Min(Scale, (Scale * dot_product) \div (norm_candidate * norm_job)))

\* ------------------------------------------------------ score combiner
EmbeddingWeight == 6

\* The skill score weighted like the embedding score.
SkillWeightOfEmbedding == EmbeddingWeight

SkillWeight == 4
WeightUnit == SkillWeight + EmbeddingWeight

\* The embeddings taken as existing whatever they hold.
EmbeddingsExistAlways(candidate, job) == TRUE

\* "hasattr(candidate, 'embedding') and candidate.embedding and ... job.embedding"
EmbeddingsExist(candidate, job) ==
    candidate.embedding # <<>> /\ job.embedding # <<>>

\* calculate_match_score raises when the embeddings exist and differ in length.
CalculateMatchScoreRaises(candidate, job) ==
    /\ candidate.present /\ job.present
    /\ EmbeddingsExist(candidate, job)
    /\ DotRaises(candidate.embedding, job.embedding)

\* calculate_match_score with the fallback path returning the skill score
\* without storing it on the row.
CalculateMatchScoreFallbackNotStored(self, candidate, job, now) ==
    IF ~candidate.present \/ ~job.present
    THEN [self |-> self, ret |-> 0]
    ELSE
      LET skills == CalculateSkillsMatch(candidate, job)
      IN IF EmbeddingsExist(candidate, job)
         THEN LET embedding ==
                      CalculateEmbeddingMatch(candidate.embedding, job.embedding)
                  total ==
                      (skills * SkillWeight + embedding * EmbeddingWeight)
                          \div WeightUnit
              IN [self |-> [self EXCEPT
                              !.skills_match_score = skills,
                              !.embedding_match_score = embedding,
                              !.match_score = total,
                              !.match_data =
                                  [skills_match_score |-> skills,
                                   embedding_match_score |-> embedding,
                                   total_score |-> total,
                                   calculation_timestamp |-> now]],
                  ret |-> total]
         ELSE [self |-> [self EXCEPT
                           !.skills_match_score = skills,
                           !.embedding_match_score = 0],
               ret |-> skills]

\* calculate_match_score putting the row back to its default status.
CalculateMatchScoreResettingStatus(self, candidate, job, now) ==
    LET res == CalculateMatchScoreFallbackNotStored(self, candidate, job, now)
        row == [res.self EXCEPT !.match_score = res.ret, !.status = "new"]
    IN [self |-> IF candidate.present /\ job.present THEN row ELSE self,
        ret |-> res.ret]

\* CandidateJobMatch.calculate_match_score: the row after the call and the
\* value returned.  now is datetime.utcnow().
CalculateMatchScore(self, candidate, job, now) ==
    IF ~candidate.present \/ ~job.present
    THEN [self |-> self, ret |-> 0]
    ELSE
      LET skills == CalculateSkillsMatch(candidate, job)
      IN IF EmbeddingsExist(candidate, job)
         THEN LET embedding ==
                      CalculateEmbeddingMatch(candidate.embedding, job.embedding)
                  total ==
                      (skills * SkillWeight + embedding * EmbeddingWeight)
                          \div WeightUnit
              IN [self |-> [self EXCEPT
                              !.skills_match_score = skills,
                              !.embedding_match_score = embedding,
                              !.match_score = total,
                              !.match_data =
                                  [skills_match_score |-> skills,
                                   embedding_match_score |-> embedding,
                                   total_score |-> total,
                                   calculation_timestamp |-> now]],
                  ret |-> total]
         ELSE [self |-> [self EXCEPT
                           !.skills_match_score = skills,
                           !.embedding_match_score = 0,
                           !.match_score = skills],
               ret |-> skills]

\* ------------------------------------------------------------- inputs
\* What the candidate provider and the job provider hand to computeAndStore.
CandidateOf(skills, embedding) ==
    [present |-> TRUE, skills_array |-> skills, embedding |-> embedding]

JobOf(skills, embedding) ==
    [present |-> TRUE, required_skills |-> skills, embedding |-> embedding]

NoInput ==
    [candidate |-> [present |-> FALSE, skills_array |-> {}, embedding |-> <<>>],
     job |-> [present |-> FALSE, required_skills |-> {}, embedding |-> <<>>]]

\* The calls the callers make: the skill-only fallback (1/3), the full
\* combination with equal embeddings and disjoint skills (0.6), the full
\* combination with close embeddings and skills equal up to case, empty
\* skills with a zero vector, and embeddings of different lengths.
CallInputs ==
    { [candidate |-> CandidateOf({"python", "sql"}, <<>>),
       job |-> JobOf({"python", " go"}, <<>>)],
      [candidate |-> CandidateOf({"sql"}, <<3, 4>>),
       job |-> JobOf({"go"}, <<3, 4>>)],
      [candidate |-> CandidateOf({"Python"}, <<3, 4>>),
       job |-> JobOf({"python"}, <<4, 3>>)],
      [candidate |-> CandidateOf({}, <<0, 0>>),
       job |-> JobOf({"go"}, <<3, 4>>)],
      [candidate |-> CandidateOf({"sql"}, <<3, 4>>),
       job |-> JobOf({"sql"}, <<3, 4, 0>>)] }

\* -------------------------------------------------------------- state
VARIABLES
    matches,    \* the rows of candidate_job_matches
    nextId,     \* the next primary key of candidate_job_matches
    history,    \* the rows of match_history, in insertion order
    clock,      \* datetime.utcnow(), a logical clock
    pc,         \* each caller's position in computeAndStore
    call,       \* each caller's arguments and locals
    ops,        \* operations started so far
    lastOp,     \* the operation that completed last and its outcome
    stored,     \* per pair, the computeAndStore calls that returned a record
    lastInput,  \* per pair, the inputs of the last call that returned a record
    candidates, \* the ids of the rows of candidates
    jobs,       \* the ids of the rows of jobs
    twin,       \* one pair scored by both scoring implementations
    cand        \* one candidate's processing status under both transition_to

vars == <<matches, nextId, history, clock, pc, call, ops, lastOp, stored,
          lastInput, candidates, jobs, twin, cand>>

\* The tables and rows the match operations leave alone.
others == <<candidates, jobs, twin, cand>>

\* The status values of CandidateJobMatch.status.
Statuses == {"new", "reviewed", "contacted", "rejected"}

\* Status arguments a caller may pass, one of them outside the workflow.
StatusArgs == Statuses \cup {"shortlisted"}

IdleCall ==
    [candidate_id |-> 0, job_id |-> 0, inp |-> NoInput, found |-> 0, attempts |-> 0]

NoOp ==
    [seq |-> 0, op |-> "none", caller |-> 0, id |-> 0, from |-> NoStatus,
     to |-> NoStatus, result |-> "none", score |-> NoScore, retries |-> 0]

\* A row of candidate_job_matches whose status column has no default.
NewMatchWithoutStatusDefault(id, candidate_id, job_id, now) ==
    [id |-> id, candidate_id |-> candidate_id, job_id |-> job_id,
     match_score |-> 0, skills_match_score |-> 0, embedding_match_score |-> 0,
     match_data |-> NoData, status |-> NoStatus,
     matched_at |-> now, updated_at |-> now]

\* A row of candidate_job_matches with the column defaults.
NewMatch(id, candidate_id, job_id, now) ==
    [id |-> id, candidate_id |-> candidate_id, job_id |-> job_id,
     match_score |-> 0, skills_match_score |-> 0, embedding_match_score |-> 0,
     match_data |-> NoData, status |-> "new",
     matched_at |-> now, updated_at |-> now]

\* A row of match_history.
HistoryEntry(match_id, old_score, new_score, old_status, new_status, note, user_id, now) ==
    [match_id |-> match_id, old_score |-> old_score, new_score |-> new_score,
     old_status |-> old_status, new_status |-> new_status, note |-> note,
     user_id |-> user_id, timestamp |-> now]

\* One pair before it is scored by the two scoring implementations.
NoTwin == [scored |-> FALSE]

\* The implementations of the processing-status transition: the methods of
\* the Candidate class and the ones add_status_transition_methods installs.
Implementations == {"Candidate", "installed"}

\* error_message = None.
NoMessage == "None"

\* No transition_to call was made yet.
NoRequest == [new_status |-> "None", error_message |-> NoMessage]

\* A candidate with the given processing_status and error_message and no
\* rows in candidate_processing_history; request holds the arguments of the
\* last transition_to call and raised tells whether it raised ValueError.
NewCandidate(processing_status, error_message) ==
    [processing_status |-> processing_status, error_message |-> error_message,
     status_updated_by |-> NoUser, processing_history |-> <<>>,
     request |-> NoRequest, raised |-> FALSE]

\* UniqueConstraint("candidate_id", "job_id", name="uq_candidate_job"): whether
\* the table accepts row beside rows.
UqCandidateJobDropped(rows, row) == TRUE

UqCandidateJob(rows, row) ==
    \A r \in rows : ~(r.candidate_id = row.candidate_id /\ r.job_id = row.job_id)

\* ForeignKey("candidates.id") and ForeignKey("jobs.id"): whether the table
\* accepts row, that is, whether its candidate and its job exist.
FkParents(row) == row.candidate_id \in candidates /\ row.job_id \in jobs

MatchesOf(candidate_id, job_id) ==
    {r \in matches : r.candidate_id = candidate_id /\ r.job_id = job_id}

MatchById(id) == CHOOSE r \in matches : r.id = id

Exists(id) == \E r \in matches : r.id = id

MatchInit ==
    /\ matches = {}
    /\ nextId = 1
    /\ history = <<>>
    /\ clock = 1
    /\ pc = [p \in Callers |-> "idle"]
    /\ call = [p \in Callers |-> IdleCall]
    /\ ops = 0
    /\ lastOp = NoOp
    /\ stored = [k \in CandidateIds \X JobIds |-> 0]
    /\ lastInput = [k \in CandidateIds \X JobIds |-> NoInput]
    /\ candidates = CandidateIds
    /\ jobs = JobIds

Init ==
    /\ MatchInit
    /\ twin = NoTwin
    /\ cand = [i \in Implementations |-> NewCandidate("pending", NoMessage)]

\* ----------------------------------------------------- History Recorder
\* append writing over the newest entry instead of adding one.
AppendHistoryOverwritingLast(log, entry) ==
    IF log = <<>> THEN <<entry>> ELSE [log EXCEPT ![Len(log)] = entry]

\* append(entry): the one write path into match_history.
AppendHistory(log, entry) == Append(log, entry)

\* ------------------------------------------------ Match Record Manager
\* The retry policy without the retry: the first refusal is final.
MaxAttemptsWithoutRetry == 2 - 1

\* The retry policy of computeAndStore: the upsert is attempted at most twice.
MaxAttempts == 2

Completed(op, caller, id, from, to, result, score, retries) ==
    [seq |-> lastOp.seq + 1, op |-> op, caller |-> caller, id |-> id,
     from |-> from, to |-> to, result |-> result, score |-> score,
     retries |-> retries]

\* computeAndStore, first step: the component scores are computable or the
\* call fails at once, before anything is read or written.
Start(p, candidate_id, job_id, inp) ==
    /\ pc[p] = "idle"
    /\ ops < MaxOps
    /\ ops' = ops + 1
    /\ IF CalculateMatchScoreRaises(inp.candidate, inp.job)
       THEN /\ lastOp' = Completed("computeAndStore", p, 0, NoStatus, NoStatus,
                                   "ValueError", NoScore, 0)
            /\ UNCHANGED <<pc, call>>
       ELSE /\ pc' = [pc EXCEPT ![p] = "lookup"]
            /\ call' = [call EXCEPT ![p] =
                          [candidate_id |-> candidate_id, job_id |-> job_id,
                           inp |-> inp, found |-> 0, attempts |-> 0]]
            /\ UNCHANGED lastOp
    /\ UNCHANGED <<matches, nextId, history, clock, stored, lastInput, others>>

\* computeAndStore, the upsert's read: is there a row for the pair?
Lookup(p) ==
    /\ pc[p] = "lookup"
    /\ LET rows == MatchesOf(call[p].candidate_id, call[p].job_id)
       IN call' = [call EXCEPT ![p].found =
                     IF rows = {} THEN 0 ELSE (CHOOSE r \in rows : TRUE).id]
    /\ pc' = [pc EXCEPT ![p] = "write"]
    /\ UNCHANGED <<matches, nextId, history, clock, ops, lastOp, stored, lastInput,
                   others>>

\* computeAndStore, the upsert's write when the read found the row: the score
\* fields are recomputed in place and one history entry records the old and
\* the new score, in one transaction.
WriteUpdate(p) ==
    /\ pc[p] = "write"
    /\ call[p].found # 0
    /\ Exists(call[p].found)
    /\ LET old == MatchById(call[p].found)
           res == CalculateMatchScore(old, call[p].inp.candidate, call[p].inp.job, clock)
           new == [res.self EXCEPT !.matched_at = clock, !.updated_at = clock]
       IN /\ matches' = (matches \ {old}) \cup {new}
          /\ history' = AppendHistory(history,
                 HistoryEntry(old.id, old.match_score, res.ret, NoStatus, NoStatus,
                              "", NoUser, clock))
          /\ lastOp' = Completed("computeAndStore", p, old.id, old.status,
                                 new.status, "updated", res.ret,
                                 call[p].attempts)
    /\ clock' = clock + 1
    /\ stored' = [stored EXCEPT ![<<call[p].candidate_id, call[p].job_id>>] = @ + 1]
    /\ lastInput' = [lastInput EXCEPT
                       ![<<call[p].candidate_id, call[p].job_id>>] = call[p].inp]
    /\ pc' = [pc EXCEPT ![p] = "idle"]
    /\ call' = [call EXCEPT ![p] = IdleCall]
    /\ UNCHANGED <<nextId, ops, others>>

\* computeAndStore, the upsert's write when the read found no row and the
\* table accepts the new one: the row is created with status new and one
\* history entry records its first score, in one transaction.
WriteInsert(p) ==
    /\ pc[p] = "write"
    /\ call[p].found = 0
    /\ LET fresh == NewMatch(nextId, call[p].candidate_id, call[p].job_id, clock)
           res == CalculateMatchScore(fresh, call[p].inp.candidate, call[p].inp.job, clock)
       IN /\ UqCandidateJob(matches, res.self)
          /\ FkParents(res.self)
          /\ matches' = matches \cup {res.self}
          /\ history' = AppendHistory(history,
                 HistoryEntry(fresh.id, NoScore, res.ret, NoStatus, NoStatus,
                              "", NoUser, clock))
          /\ lastOp' = Completed("computeAndStore", p, fresh.id, NoStatus,
                                 res.self.status, "created", res.ret,
                                 call[p].attempts)
    /\ nextId' = nextId + 1
    /\ clock' = clock + 1
    /\ stored' = [stored EXCEPT ![<<call[p].candidate_id, call[p].job_id>>] = @ + 1]
    /\ lastInput' = [lastInput EXCEPT
                       ![<<call[p].candidate_id, call[p].job_id>>] = call[p].inp]
    /\ pc' = [pc EXCEPT ![p] = "idle"]
    /\ call' = [call EXCEPT ![p] = IdleCall]
    /\ UNCHANGED <<ops, others>>

\* computeAndStore, the upsert's write when the read found no row and the
\* table refuses the new one (another caller inserted the pair meanwhile):
\* the transaction is rolled back and the upsert is retried once; a second
\* refusal surfaces ConcurrentWriteConflict.
WriteConflict(p) ==
    /\ pc[p] = "write"
    /\ call[p].found = 0
    /\ ~UqCandidateJob(matches,
                       NewMatch(nextId, call[p].candidate_id, call[p].job_id, clock))
    /\ IF call[p].attempts + 1 < MaxAttempts
       THEN /\ pc' = [pc EXCEPT ![p] = "lookup"]
            /\ call' = [call EXCEPT ![p].attempts = @ + 1]
            /\ UNCHANGED lastOp
       ELSE /\ pc' = [pc EXCEPT ![p] = "idle"]
            /\ call' = [call EXCEPT ![p] = IdleCall]
            /\ lastOp' = Completed("computeAndStore", p, 0, NoStatus, NoStatus,
                                   "ConcurrentWriteConflict", NoScore,
                                   call[p].attempts + 1)
    /\ UNCHANGED <<matches, nextId, history, clock, ops, stored, lastInput, others>>

\* ----------------------------------------------------- Status Workflow
\* The table with contacted reachable from new as well.
CanTransitionSkippingReview(from, to) ==
    \/ from = "new" /\ to \in {"reviewed", "contacted"}
    \/ from = "reviewed" /\ to = "contacted"
    \/ from \in {"new", "reviewed", "contacted"} /\ to = "rejected"

\* The transition table: new -> reviewed -> contacted, and rejected from
\* each of the three; nothing leaves rejected.
CanTransition(from, to) ==
    \/ from = "new" /\ to = "reviewed"
    \/ from = "reviewed" /\ to = "contacted"
    \/ from \in {"new", "reviewed", "contacted"} /\ to = "rejected"

\* The outcome without the same-status case.
TransitionOutcomeNotIdempotent(status, new_status) ==
    IF CanTransition(status, new_status) THEN "ok" ELSE "InvalidTransition"

\* What a transition call does with a row of status status: nothing when the
\* status is already new_status, the change when the table allows it, and
\* InvalidTransition otherwise.
TransitionOutcome(status, new_status) ==
    IF new_status = status THEN "unchanged"
    ELSE IF CanTransition(status, new_status) THEN "ok"
    ELSE "InvalidTransition"

\* The change of status stamping the computation time as well.
ApplyTransitionTouchingMatchedAt(row, new_status, now) ==
    [row EXCEPT !.status = new_status, !.updated_at = now, !.matched_at = now]

\* The row after an accepted change of status: status and updated_at.
ApplyTransition(row, new_status, now) ==
    [row EXCEPT !.status = new_status, !.updated_at = now]

\* The change of status writing no history entry.
TransitionEntriesNone(row, new_status, actor, note, now) == <<>>

\* The history entries an accepted change of status writes: one, with the
\* actor and the note.
TransitionEntries(row, new_status, actor, note, now) ==
    <<HistoryEntry(row.id, NoScore, NoScore, row.status, new_status, note,
                   actor, now)>>

RECURSIVE AppendAll(_, _)
AppendAll(log, entries) ==
    IF entries = <<>> THEN log
    ELSE AppendAll(AppendHistory(log, Head(entries)), Tail(entries))

\* transition writing a history entry for the refused attempt as well.
TransitionLoggingRefusals(id, new_status, actor, note) ==
    /\ ops < MaxOps
    /\ ops' = ops + 1
    /\ IF ~Exists(id)
       THEN /\ lastOp' = Completed("transition", actor, id, NoStatus, new_status,
                                   "NotFound", NoScore, 0)
            /\ UNCHANGED <<matches, history, clock>>
       ELSE LET row == MatchById(id)
                outcome == TransitionOutcome(row.status, new_status)
            IN /\ lastOp' = Completed("transition", actor, id, row.status,
                                      new_status, outcome, NoScore, 0)
               /\ IF outcome = "ok"
                  THEN /\ matches' = (matches \ {row})
                                       \cup {ApplyTransition(row, new_status, clock)}
                       /\ history' = AppendAll(history,
                              TransitionEntries(row, new_status, actor, note, clock))
                       /\ clock' = clock + 1
                  ELSE IF outcome = "InvalidTransition"
                  THEN /\ history' = AppendHistory(history,
                              HistoryEntry(row.id, NoScore, NoScore, row.status,
                                           new_status, note, actor, clock))
                       /\ UNCHANGED <<matches, clock>>
                  ELSE UNCHANGED <<matches, history, clock>>
    /\ UNCHANGED <<nextId, pc, call, stored, lastInput, others>>

\* transition(matchRecordId, newStatus, actorId, note)
Transition(id, new_status, actor, note) ==
    /\ ops < MaxOps
    /\ ops' = ops + 1
    /\ IF ~Exists(id)
       THEN /\ lastOp' = Completed("transition", actor, id, NoStatus, new_status,
                                   "NotFound", NoScore, 0)
            /\ UNCHANGED <<matches, history, clock>>
       ELSE LET row == MatchById(id)
                outcome == TransitionOutcome(row.status, new_status)
            IN /\ lastOp' = Completed("transition", actor, id, row.status,
                                      new_status, outcome, NoScore, 0)
               /\ IF outcome = "ok"
                  THEN /\ matches' = (matches \ {row})
                                       \cup {ApplyTransition(row, new_status, clock)}
                       /\ history' = AppendAll(history,
                              TransitionEntries(row, new_status, actor, note, clock))
                       /\ clock' = clock + 1
                  ELSE UNCHANGED <<matches, history, clock>>
    /\ UNCHANGED <<nextId, pc, call, stored, lastInput, others>>

\* ------------------------------------------------------ specification
Next ==
    \/ \E p \in Callers, c \in CandidateIds, j \in JobIds, inp \in CallInputs :
          Start(p, c, j, inp)
    \/ \E p \in Callers : Lookup(p)
    \/ \E p \in Callers : WriteUpdate(p)
    \/ \E p \in Callers : WriteInsert(p)
    \/ \E p \in Callers : WriteConflict(p)
    \/ \E id \in 1..nextId, s \in StatusArgs, a \in Actors, n \in Notes :
          Transition(id, s, a, n)

Spec == Init /\ [][Next]_vars

\* ------------------------------------------------------------- helpers
Pairs == CandidateIds \X JobIds

IsPrefix(a, b) == Len(a) <= Len(b) /\ SubSeq(b, 1, Len(a)) = a

\* The entries of one match row in a history log, oldest first.
EntriesIn(log, id) == SelectSeq(log, LAMBDA e : e.match_id = id)

EntriesOf(id) == EntriesIn(history, id)

\* The workflow of section 4.5, pair by pair.
WorkflowTable ==
    { <<"new", "reviewed">>, <<"reviewed", "contacted">>,
      <<"new", "rejected">>, <<"reviewed", "rejected">>,
      <<"contacted", "rejected">> }

\* This step completes an operation.
Completes == lastOp'.seq # lastOp.seq

\* Those that record a score.
ScoreEntriesOf(id) == SelectSeq(history, LAMBDA e : e.match_id = id /\ e.new_score # NoScore)

AllIdle == \A p \in Callers : pc[p] = "idle"

\* ---------------------------------------------------------------- claims

\* C1: for every (candidate, job) pair there is at most one match row, in
\* every state any interleaving of computeAndStore calls reaches; a call for
\* a pair that has a row leaves the set of row ids as it was.
C1_AtMostOneMatchPerPair ==
    /\ \A k \in Pairs : Cardinality(MatchesOf(k[1], k[2])) <= 1
    /\ lastOp.result = "updated" =>
          \E r \in matches :
              /\ r.id = lastOp.id
              /\ MatchesOf(r.candidate_id, r.job_id) = {r}
              /\ Len(ScoreEntriesOf(r.id)) >= 2

\* C1 witness: a second computeAndStore for a pair has updated its one row.
C1_Witness ==
    \E k \in Pairs :
        /\ stored[k] >= 2
        /\ Cardinality(MatchesOf(k[1], k[2])) = 1
        /\ lastOp.result = "updated"

\* C2: once the computeAndStore calls for a pair have returned, the pair has
\* exactly one match row and that row's history holds exactly one score entry
\* per call, whatever the interleaving was.
C2_OneRowAndOneEntryPerCall ==
    \A k \in Pairs :
        stored[k] > 0 =>
            /\ Cardinality(MatchesOf(k[1], k[2])) = 1
            /\ \A r \in MatchesOf(k[1], k[2]) :
                  Len(ScoreEntriesOf(r.id)) = stored[k]

\* C2 witness: two calls for one pair raced (the later one lost the insert
\* and retried), both have returned, and the history has both entries.
C2_Witness ==
    \E k \in Pairs :
        /\ AllIdle
        /\ stored[k] = 2
        /\ lastOp.op = "computeAndStore" /\ lastOp.retries = 1
        /\ \E r \in MatchesOf(k[1], k[2]) : Len(ScoreEntriesOf(r.id)) = 2

\* C3: the live match_score of a row is the score of the computeAndStore
\* whose write came last: it equals the new_score of the row's most recent
\* score entry, and right after a call returns a record it equals the score
\* that call computed.
C3_LastWriteWins ==
    /\ \A r \in matches :
          LET es == ScoreEntriesOf(r.id)
          IN es # <<>> /\ es[Len(es)].new_score = r.match_score
    /\ lastOp.result \in {"created", "updated"} =>
          /\ history[Len(history)].new_score = lastOp.score
          /\ \E r \in matches : r.id = lastOp.id /\ r.match_score = lastOp.score

\* C3 witness: two racing calls for one pair with different scores have both
\* returned and the row holds the score of the one that wrote last.
C3_Witness ==
    \E r \in matches :
        LET es == ScoreEntriesOf(r.id)
        IN /\ AllIdle
           /\ Len(es) = 2
           /\ es[1].new_score # es[2].new_score
           /\ es[2].old_score = es[1].new_score
           /\ lastOp.retries = 1 /\ lastOp.id = r.id
           /\ r.match_score = es[2].new_score

\* C4: every step that creates a match row or changes its status or its
\* match_score adds, in that same step, exactly one history entry, which is
\* the newest one, belongs to the row and records the change; no step adds
\* more than one entry.
C4_Step ==
    /\ Len(history') <= Len(history) + 1
    /\ \A r2 \in matches' :
          LET olds == {r \in matches : r.id = r2.id}
              scoreChanged == \E r \in olds : r.match_score # r2.match_score
              statusChanged == \E r \in olds : r.status # r2.status
          IN (olds = {} \/ scoreChanged \/ statusChanged) =>
                /\ Len(history') = Len(history) + 1
                /\ IsPrefix(history, history')
                /\ LET e == history'[Len(history')]
                   IN /\ e.match_id = r2.id
                      /\ olds = {} => e.new_score = r2.match_score
                      /\ scoreChanged =>
                            /\ e.new_score = r2.match_score
                            /\ \E r \in olds : e.old_score = r.match_score
                      /\ statusChanged =>
                            /\ e.new_status = r2.status
                            /\ \E r \in olds : e.old_status = r.status

\* C4: every step of every behaviour is such a step.
C4_HistoryAccompaniesMutation == [][C4_Step]_vars

\* C4 witness: a row whose score was changed by a recomputation and whose
\* status was changed by a transition, with one entry for each.
C4_Witness ==
    \E r \in matches :
        LET es == EntriesOf(r.id)
        IN /\ Len(es) = 3
           /\ es[2].old_score # NoScore /\ es[2].old_score # es[2].new_score
           /\ es[3].old_status = "new" /\ es[3].new_status = r.status
           /\ r.status = "reviewed"

\* C5: the history log only grows at its end: in every step the old log is a
\* prefix of the new one, for the whole log and for the entries of each row.
C5_Step ==
    /\ IsPrefix(history, history')
    /\ \A id \in 1..nextId : IsPrefix(EntriesIn(history, id), EntriesIn(history', id))

\* C5: every step of every behaviour keeps the old log as a prefix.
C5_HistoryAppendOnly == [][C5_Step]_vars

\* C5 witness: a log of three entries written by a creation, a recomputation
\* and a transition.
C5_Witness ==
    /\ Len(history) = 3
    /\ \E i \in 1..3 : history[i].old_score = NoScore /\ history[i].new_score # NoScore
    /\ \E i \in 1..3 : history[i].old_score # NoScore
    /\ \E i \in 1..3 : history[i].new_status # NoStatus

C7_OriginalStep ==
    /\ \A r \in matches :
          r.status = "rejected" =>
              \E r2 \in matches' : r2.id = r.id /\ r2.status = "rejected"
    /\ (Completes /\ lastOp'.op = "transition" /\ lastOp'.from = "rejected")
          => lastOp'.result = "InvalidTransition"

C7_Step ==
    /\ \A r \in matches :
          r.status = "rejected" =>
              \E r2 \in matches' : r2.id = r.id /\ r2.status = "rejected"
    /\ (Completes /\ lastOp'.op = "transition" /\ lastOp'.from = "rejected")
          => lastOp'.result =
                 IF lastOp'.to = "rejected" THEN "unchanged" ELSE "InvalidTransition"

C8_Step ==
    (Completes /\ lastOp'.op = "transition" /\ lastOp'.result # "NotFound"
       /\ lastOp'.from = lastOp'.to)
        => /\ lastOp'.result = "unchanged"
           /\ matches' = matches
           /\ history' = history
           /\ clock' = clock

\* C8: every same-status transition step is a successful no-op.
C8_SameStatusIsNoOp == [][C8_Step]_vars

\* C8 witness: a reviewed row was asked to become reviewed.
C8_Witness ==
    /\ lastOp.op = "transition" /\ lastOp.result = "unchanged"
    /\ lastOp.from = "reviewed" /\ lastOp.to = "reviewed"
    /\ Len(history) = 2

\* C9: a computeAndStore on a pair that has a row leaves the row's status as
\* it was.
C9_Step ==
    (Completes /\ lastOp'.op = "computeAndStore" /\ lastOp'.result = "updated")
        => \A r \in matches :
              \E r2 \in matches' : r2.id = r.id /\ r2.status = r.status

\* C9: every recomputation step keeps every row's status.
C9_RecomputeKeepsStatus == [][C9_Step]_vars

\* C9 witness: a reviewed row was recomputed to another score and is still
\* reviewed.
C9_Witness ==
    /\ lastOp.result = "updated"
    /\ history[Len(history)].old_score # history[Len(history)].new_score
    /\ \E r \in matches : r.id = lastOp.id /\ r.status = "reviewed"

\* C10: an accepted transition changes status and updated_at of its row and
\* nothing else: match_score, skills_match_score, embedding_match_score,
\* match_data and matched_at are as before, and so is every other row.
C10_Step ==
    (Completes /\ lastOp'.op = "transition" /\ lastOp'.result = "ok")
        => \A r \in matches :
              \E r2 \in matches' :
                  /\ r2.id = r.id
                  /\ r2 = IF r.id = lastOp'.id
                          THEN [r EXCEPT !.status = r2.status,
                                         !.updated_at = r2.updated_at]
                          ELSE r
                  /\ r.id = lastOp'.id =>
                        r2.status = lastOp'.to /\ r2.updated_at = clock

\* C10: every accepted transition step changes status and updated_at only.
C10_TransitionFrame == [][C10_Step]_vars

\* C10 witness: a row with a positive score computed on the full path was
\* moved to reviewed later than it was computed.
C10_Witness ==
    /\ lastOp.op = "transition" /\ lastOp.result = "ok"
    /\ \E r \in matches :
          /\ r.id = lastOp.id
          /\ r.status = "reviewed"
          /\ r.match_score > 0 /\ r.embedding_match_score > 0
          /\ r.updated_at > r.matched_at

\* The rows a step adds to candidate_job_matches.
CreatedRows == {r2 \in matches' : \A r \in matches : r.id # r2.id}

C11_Step ==
    /\ \A r2 \in CreatedRows : r2.status = "new"
    /\ (Completes /\ lastOp'.result = "created")
          => \E r2 \in CreatedRows : r2.id = lastOp'.id

\* C11: every match record is created with status new: a step that adds a row
\* to candidate_job_matches adds it with status new, never with reviewed,
\* contacted or rejected, and every call that reports a created record has
\* added such a row.
C11_CreatedWithStatusNew == [][C11_Step]_vars

\* C11 witness: the last call created a record, it holds a computed score and
\* its status is new.
C11_Witness ==
    /\ lastOp.op = "computeAndStore" /\ lastOp.result = "created"
    /\ \E r \in matches :
          /\ r.id = lastOp.id
          /\ r.status = "new"
          /\ r.match_score > 0
          /\ Len(EntriesOf(r.id)) = 1

\* The pair a caller's call in progress is about.
PairOf(p) == <<call[p].candidate_id, call[p].job_id>>

\* A step in which caller p returns from computeAndStore with a record.
ReturnsRecord(p) ==
    /\ Completes
    /\ lastOp'.caller = p
    /\ lastOp'.op = "computeAndStore"
    /\ lastOp'.result \in {"created", "updated"}

C12_Step ==
    \A p \in Callers :
        ReturnsRecord(p) =>
            /\ Len(history') = Len(history) + 1
            /\ call[p].inp = lastInput[PairOf(p)] =>
                  \E r \in matches, r2 \in matches' :
                      /\ r.id = lastOp'.id /\ r2.id = lastOp'.id
                      /\ r2.match_score = r.match_score
                      /\ r2.match_score = lastOp'.score
                      /\ r2.skills_match_score = r.skills_match_score
                      /\ r2.embedding_match_score = r.embedding_match_score
                      /\ LET e == history'[Len(history')]
                         IN /\ e.match_id = r.id
                            /\ e.old_score = r.match_score
                            /\ e.new_score = r.match_score

\* C12: computeAndStore is idempotent in the score: a call made with the
\* inputs of the pair's previous successful call leaves match_score and the
\* two component scores as that call left them and returns that score, and it
\* (like every call that returns a record) adds exactly one history entry, here
\* one whose old and new score are equal.
C12_ScoreIdempotent == [][C12_Step]_vars

\* C12 witness: a pair was computed twice with the same inputs: its record has
\* two score entries, the later one with equal old and new score, and the
\* record holds that score.
C12_Witness ==
    /\ lastOp.op = "computeAndStore" /\ lastOp.result = "updated"
    /\ \E r \in matches :
          /\ r.id = lastOp.id
          /\ stored[<<r.candidate_id, r.job_id>>] = 2
          /\ Len(ScoreEntriesOf(r.id)) = 2
          /\ ScoreEntriesOf(r.id)[2].old_score = ScoreEntriesOf(r.id)[2].new_score
          /\ ScoreEntriesOf(r.id)[2].new_score = r.match_score
          /\ r.match_score > 0

\* ------------------------------------------------- scoring specification
\* One computeAndStore call on one pair with inputs drawn from all
\* combinations of the skill lists and embeddings below: equal, overlapping,
\* disjoint and empty skill lists, names differing in case and in surrounding
\* whitespace, and embeddings that are missing (None or [], written <<>>),
\* parallel, close, opposite, of zero magnitude and of another length.
ScoreSkillSets ==
    { {}, {"python"}, {"Python"}, {"go"}, {" go"},
      {"python", "sql"}, {"python", "go"}, {"python", "sql", "go"} }

ScoreEmbeddings ==
    { <<>>, <<3, 4>>, <<4, 3>>, <<-3, -4>>, <<0, 0>>, <<3, 4, 0>> }

ScoreInputs ==
    { [candidate |-> CandidateOf(cs, ce), job |-> JobOf(js, je)] :
        cs \in ScoreSkillSets, ce \in ScoreEmbeddings,
        js \in ScoreSkillSets, je \in ScoreEmbeddings }

\* The single call of the scoring specification.
ScoreStart(inp) == ops = 0 /\ Start(1, 1, 1, inp)

ScoreNext ==
    \/ \E inp \in ScoreInputs : ScoreStart(inp)
    \/ Lookup(1)
    \/ WriteInsert(1)

ScoreSpec == Init /\ [][ScoreNext]_vars

\* The inputs a row's scores were last computed from.
InputOf(r) == lastInput[<<r.candidate_id, r.job_id>>]

\* Both embeddings are there: neither is None or [].
BothEmbeddingsGiven(inp) ==
    inp.candidate.embedding # <<>> /\ inp.job.embedding # <<>>

\* C13: when both embeddings are available the stored match_score is
\* 0.6 x embedding_match_score + 0.4 x skills_match_score for every pair of
\* component scores; in particular identical embeddings (similarity 1) with
\* disjoint skills (overlap 0) give 0.6.
C13_WeightedCombination ==
    \A r \in matches :
        BothEmbeddingsGiven(InputOf(r)) =>
            /\ 10 * r.match_score =
                  6 * r.embedding_match_score + 4 * r.skills_match_score
            /\ (r.embedding_match_score = Scale /\ r.skills_match_score = 0)
                  => 10 * r.match_score = 6 * Scale
            /\ lastOp.score = r.match_score

\* C13 witness: identical embeddings and disjoint skills produced a record
\* with similarity 1, overlap 0 and match_score 0.6.
C13_Witness ==
    \E r \in matches :
        /\ InputOf(r) = [candidate |-> CandidateOf({"python", "sql"}, <<3, 4>>),
                         job |-> JobOf({"go"}, <<3, 4>>)]
        /\ r.embedding_match_score = Scale
        /\ r.skills_match_score = 0
        /\ 10 * r.match_score = 6 * Scale

\* C14: when either embedding is missing the stored match_score is the skill
\* overlap taken with weight 1 (and the embedding component 0); in particular
\* the skills {python, sql} against {python, go} with no embeddings give
\* skills_match_score = match_score = 1/3.
C14_SkillOnlyFallback ==
    \A r \in matches :
        ~BothEmbeddingsGiven(InputOf(r)) =>
            /\ r.match_score = r.skills_match_score
            /\ r.embedding_match_score = 0
            /\ lastOp.score = r.skills_match_score
            /\ (/\ InputOf(r).candidate.skills_array = {"python", "sql"}
                /\ InputOf(r).job.required_skills = {"python", "go"})
                  => 3 * r.match_score = Scale

\* C14 witness: {python, sql} against {python, go} without embeddings
\* produced a record with skills_match_score = match_score = 1/3.
C14_Witness ==
    \E r \in matches :
        /\ InputOf(r) = [candidate |-> CandidateOf({"python", "sql"}, <<>>),
                         job |-> JobOf({"python", "go"}, <<>>)]
        /\ 3 * r.skills_match_score = Scale
        /\ 3 * r.match_score = Scale

\* A vector all of whose components are 0.
ZeroVector(v) == v # <<>> /\ \A i \in 1..Len(v) : v[i] = 0

\* The vectors point away from each other: their dot product is negative.
Opposed(a, b) ==
    /\ Len(a) = Len(b)
    /\ \E i \in 1..Len(a) : a[i] * b[i] < 0
    /\ \A i \in 1..Len(a) : a[i] * b[i] <= 0

NormalizedNames(names) == {Strip(Lower(s)) : s \in names}

\* C16: the skill overlap of a record is |A n B| / |A u B| over the normalized
\* names A of the candidate and B of the job, and 0 when A or B is empty (so it
\* is symmetric, and 1 for two equal non-empty sets).
C16_Original ==
    \A r \in matches :
        LET A == NormalizedNames(InputOf(r).candidate.skills_array)
            B == NormalizedNames(InputOf(r).job.required_skills)
        IN IF A = {} \/ B = {}
           THEN r.skills_match_score = 0
           ELSE r.skills_match_score * Cardinality(A \cup B)
                    = Scale * Cardinality(A \cap B)

\* Both embeddings are given and their lengths differ.
LengthsDiffer(inp) ==
    /\ BothEmbeddingsGiven(inp)
    /\ Len(inp.candidate.embedding) # Len(inp.job.embedding)

\* No call gets past its first step with embeddings of different lengths and
\* no record holds scores computed from such embeddings.
C17_NoScoreFromMismatch ==
    /\ \A p \in Callers : pc[p] # "idle" => ~LengthsDiffer(call[p].inp)
    /\ \A r \in matches : ~LengthsDiffer(InputOf(r))

\* A call that fails on the embeddings returns no score and no record and
\* leaves both tables as they were.
C17_Step ==
    (Completes /\ lastOp'.result = "ValueError")
        => /\ lastOp'.op = "computeAndStore"
           /\ lastOp'.score = NoScore
           /\ lastOp'.id = 0
           /\ matches' = matches
           /\ history' = history
           /\ nextId' = nextId

EmbeddingUnavailable(inp) ==
    \/ ~BothEmbeddingsGiven(inp)
    \/ ZeroVector(inp.candidate.embedding)
    \/ ZeroVector(inp.job.embedding)

\* C18: when either embedding is absent, empty or of zero magnitude the
\* similarity is 0 and the combiner takes the skill-only fallback: the record
\* holds embedding score 0 and match_score = skills_match_score, in all three
\* cases.
C18_Original ==
    \A r \in matches :
        EmbeddingUnavailable(InputOf(r)) =>
            /\ r.embedding_match_score = 0
            /\ r.match_score = r.skills_match_score

\* -------------------------------------------------------------- queries
\* The order of listForJob with ties going to the record computed last.
RanksBeforeNewestFirst(a, b) ==
    \/ a.match_score > b.match_score
    \/ a.match_score = b.match_score /\ a.matched_at > b.matched_at

\* The order of listForJob: match_score descending, ties by the time of the
\* computation ascending.
RanksBefore(a, b) ==
    \/ a.match_score > b.match_score
    \/ a.match_score = b.match_score /\ a.matched_at < b.matched_at

\* The rows in the order of listForJob: the row no other row ranks before,
\* then the rest.
RECURSIVE SortRows(_)
SortRows(rows) ==
    IF rows = {}
    THEN <<>>
    ELSE LET first == CHOOSE r \in rows : \A o \in rows : ~RanksBefore(o, r)
         IN <<first>> \o SortRows(rows \ {first})

\* listForJob(jobId, minScore); min_score = NoScore when minScore is omitted.
ListForJob(job_id, min_score) ==
    SortRows({r \in matches :
                 /\ r.job_id = job_id
                 /\ min_score = NoScore \/ r.match_score >= min_score})

\* The thresholds and the jobs listForJob is asked for: a job with records
\* and one without.
MinScores == {NoScore, 0, Scale \div 3, (6 * Scale) \div 10, Scale}
QueryJobIds == JobIds \cup {2}

\* C19: listForJob(jobId, minScore) returns each record of the job whose
\* match_score is at least minScore (each record of the job when minScore is
\* omitted) exactly once and no other record, ordered by match_score
\* descending with ties by computation time ascending; no two entries tie on
\* both, so the order is the same on every call.
C19_ListForJobOrdered ==
    \A j \in QueryJobIds, m \in MinScores :
        LET l == ListForJob(j, m)
        IN /\ {l[i] : i \in 1..Len(l)} =
                  {r \in matches :
                      r.job_id = j /\ (m # NoScore => r.match_score >= m)}
           /\ \A i, k \in 1..Len(l) :
                  i < k =>
                      /\ l[i] # l[k]
                      /\ l[i].match_score >= l[k].match_score
                      /\ l[i].match_score = l[k].match_score
                            => l[i].matched_at < l[k].matched_at

\* C19 witness: a job has two records with the same match_score, the one
\* with the larger id computed first: the list without threshold and the list
\* with their score as threshold hold both, the older first, and the list
\* with threshold 1.0 is empty.
C19_Witness ==
    LET l == ListForJob(1, NoScore)
    IN /\ Len(l) = 2
       /\ l[1].match_score = l[2].match_score
       /\ l[1].match_score > 0
       /\ l[1].matched_at < l[2].matched_at
       /\ l[1].id > l[2].id
       /\ ListForJob(1, Scale) = <<>>
       /\ Len(ListForJob(1, l[1].match_score)) = 2

\* ------------------------------------------------- upsert specification
\* The computeAndStore calls on one pair alone, each caller's call running to
\* its end.
UpsertStep(p) ==
    Lookup(p) \/ WriteUpdate(p) \/ WriteInsert(p) \/ WriteConflict(p)

\* The inputs of the racing calls: one scored on the fallback path and one
\* on the full combination.
UpsertInputs ==
    {inp \in CallInputs :
        inp.candidate.skills_array \in {{"python", "sql"}, {"Python"}}}

UpsertNext ==
    \/ \E p \in Callers, inp \in UpsertInputs : Start(p, 1, 1, inp)
    \/ \E p \in Callers : UpsertStep(p)

\* The calls in progress keep running: while some call can take a step, one
\* is taken.  No new call starts after the last of the bounded number of
\* calls, so each call in progress gets its turn.
UpsertSpec ==
    Init /\ [][UpsertNext]_vars /\ WF_vars(\E p \in Callers : UpsertStep(p))

\* A step in which caller p's write is refused: p leaves the write and the
\* table is as it was.
Refused(p) == pc[p] = "write" /\ pc'[p] # "write" /\ matches' = matches

\* A call is never past its second attempt.
C20_AtMostTwoAttempts == \A p \in Callers : call[p].attempts \in {0, 1}

C20_Step ==
    \A p \in Callers :
        /\ (Refused(p) /\ call[p].attempts = 0)
              => /\ pc'[p] = "lookup"
                 /\ call'[p] = [call[p] EXCEPT !.attempts = 1]
                 /\ lastOp' = lastOp
                 /\ history' = history
        /\ (Refused(p) /\ call[p].attempts = 1)
              => /\ Completes
                 /\ lastOp'.result = "ConcurrentWriteConflict"
        /\ (Completes /\ lastOp'.result = "ConcurrentWriteConflict")
              => lastOp'.retries = 2
        /\ (/\ Completes /\ lastOp'.caller = p /\ lastOp'.op = "computeAndStore"
            /\ call[p].attempts = 1 /\ ~Refused(p))
              => /\ lastOp'.result \in {"created", "updated"}
                 /\ lastOp'.retries = 1
                 /\ \E r2 \in matches' :
                       /\ r2.id = lastOp'.id
                       /\ <<r2.candidate_id, r2.job_id>> = PairOf(p)
                       /\ r2.match_score = lastOp'.score

\* The call that lost the race once returns, with its record.
C20_RetryReturns ==
    \A p \in Callers :
        (call[p].attempts = 1)
            ~> (/\ lastOp.caller = p /\ lastOp.retries = 1
                /\ lastOp.result \in {"created", "updated"})

WriteRefusedNoParent(p) ==
    /\ pc[p] = "write"
    /\ call[p].found = 0
    /\ ~FkParents(NewMatch(nextId, call[p].candidate_id, call[p].job_id, clock))
    /\ pc' = [pc EXCEPT ![p] = "idle"]
    /\ call' = [call EXCEPT ![p] = IdleCall]
    /\ lastOp' = Completed("computeAndStore", p, 0, NoStatus, NoStatus,
                           "IntegrityError", NoScore, call[p].attempts)
    /\ UNCHANGED <<matches, nextId, history, clock, ops, stored, lastInput, others>>

\* computeAndStore, the upsert's write when the row the read found was
\* deleted meanwhile: nothing is there to update.
WriteUpdateGone(p) ==
    /\ pc[p] = "write"
    /\ call[p].found # 0
    /\ ~Exists(call[p].found)
    /\ pc' = [pc EXCEPT ![p] = "idle"]
    /\ call' = [call EXCEPT ![p] = IdleCall]
    /\ lastOp' = Completed("computeAndStore", p, call[p].found, NoStatus, NoStatus,
                           "StaleData", NoScore, call[p].attempts)
    /\ UNCHANGED <<matches, nextId, history, clock, ops, stored, lastInput, others>>

\* The rows that go with their parent row: ondelete="CASCADE".
CascadeNone(rows, gone) == rows

Cascade(rows, gone) == rows \ gone

\* The history entries that go with their match rows: ondelete="CASCADE".
CascadeHistory(log, gone) ==
    SelectSeq(log, LAMBDA e : \A r \in gone : e.match_id # r.id)

\* A candidate is deleted; its match rows and their history go with it.
DeleteCandidate(c) ==
    /\ c \in candidates
    /\ ops < MaxOps
    /\ ops' = ops + 1
    /\ LET gone == {r \in matches : r.candidate_id = c}
       IN /\ matches' = Cascade(matches, gone)
          /\ history' = CascadeHistory(history, gone)
    /\ candidates' = candidates \ {c}
    /\ lastOp' = Completed("deleteCandidate", 0, c, NoStatus, NoStatus,
                           "deleted", NoScore, 0)
    /\ UNCHANGED <<nextId, clock, pc, call, stored, lastInput, jobs, twin, cand>>

\* A job is deleted; its match rows and their history go with it.
DeleteJob(j) ==
    /\ j \in jobs
    /\ ops < MaxOps
    /\ ops' = ops + 1
    /\ LET gone == {r \in matches : r.job_id = j}
       IN /\ matches' = Cascade(matches, gone)
          /\ history' = CascadeHistory(history, gone)
    /\ jobs' = jobs \ {j}
    /\ lastOp' = Completed("deleteJob", 0, j, NoStatus, NoStatus,
                           "deleted", NoScore, 0)
    /\ UNCHANGED <<nextId, clock, pc, call, stored, lastInput, candidates, twin, cand>>

\* The match operations together with the deletion of candidates and jobs.
\* A call is made for a candidate and a job that exist when it starts.
DeleteNext ==
    \/ \E p \in Callers, c \in candidates, j \in jobs, inp \in UpsertInputs :
          Start(p, c, j, inp)
    \/ \E p \in Callers : UpsertStep(p)
    \/ \E p \in Callers : WriteRefusedNoParent(p)
    \/ \E p \in Callers : WriteUpdateGone(p)
    \/ \E id \in 1..nextId, s \in {"reviewed", "rejected"}, a \in Actors :
          Transition(id, s, a, "")
    \/ \E c \in CandidateIds : DeleteCandidate(c)
    \/ \E j \in JobIds : DeleteJob(j)

DeleteSpec == Init /\ [][DeleteNext]_vars

\* A step of computeAndStore or of transition.
MatchOperationStep ==
    \/ \E p \in Callers : pc'[p] # pc[p]
    \/ Completes /\ lastOp'.op \in {"computeAndStore", "transition"}

C21_Step ==
    /\ MatchOperationStep => \A r \in matches : \E r2 \in matches' : r2.id = r.id
    /\ \A c \in candidates \ candidates' :
          \A r2 \in matches' : r2.candidate_id # c
    /\ \A j \in jobs \ jobs' :
          \A r2 \in matches' : r2.job_id # j
    /\ (candidates' = candidates /\ jobs' = jobs)
          => \A r \in matches : \E r2 \in matches' : r2.id = r.id

\* Every match row has its candidate and its job, and every history entry
\* its match row.
C21_ParentsExist ==
    /\ \A r \in matches : r.candidate_id \in candidates /\ r.job_id \in jobs
    /\ \A i \in 1..Len(history) : Exists(history[i].match_id)

\* C21: a match record never outlives its candidate or its job and nothing
\* else removes it: in every state each record refers to an existing
\* candidate and an existing job, the deletion of a candidate or of a job
\* removes all of its records, and no step of computeAndStore or transition
\* (indeed no step that deletes neither a candidate nor a job) removes a
\* record.
C21_OwnedByCandidateAndJob == []C21_ParentsExist /\ [][C21_Step]_vars

\* C21 witness: a candidate with a scored record was deleted while another
\* candidate's record stayed: the deleted candidate has no record and no
\* history entry left, the other record and its entry are there.
C21_Witness ==
    /\ lastOp.op = "deleteCandidate"
    /\ stored[<<lastOp.id, 1>>] > 0
    /\ lastOp.id \notin candidates
    /\ Cardinality(matches) = 1
    /\ \A r \in matches : r.candidate_id # lastOp.id /\ r.match_score > 0
    /\ Len(history) = 1

\* C22: after every score computation the match_data of the record describes
\* that computation: it is there, on the fallback path as on the full path,
\* and its total_score is the match_score just stored.
C22_Original ==
    \A r \in matches :
        /\ r.match_data # NoData
        /\ r.match_data.total_score = r.match_score

\* ------------------------------------- the second scoring implementation
\* The variables of the match operations.
matchVars ==
    <<matches, nextId, history, clock, pc, call, ops, lastOp, stored, lastInput>>

\* A row of job_candidate_matches with the column defaults.
NewJobCandidateMatch == [score |-> 0, match_data |-> NoData, status |-> "new"]

\* JobCandidateMatch._cosine_similarity (both vectors of one length)
CosineSimilarity(vector_a, vector_b) ==
    IF vector_a = <<>> \/ vector_b = <<>>
    THEN 0
    ELSE
      LET dot_product == Dot(vector_a, vector_b)
          norm_a == Norm(vector_a)
          norm_b == Norm(vector_b)
      IN IF norm_a = 0 \/ norm_b = 0
         THEN 0
         ELSE Max(0, Min(Scale, (Scale * dot_product) \div (norm_a * norm_b)))

\* JobCandidateMatch._calculate_skill_match_score; job and candidate are the
\* rows Job.query.get and Candidate.query.get return.
CalculateSkillMatchScore(candidate, job) ==
    IF ~job.present \/ ~candidate.present
    THEN 0
    ELSE
      LET job_skills == {Lower(s) : s \in JobSkillsArray(job)}
          candidate_skills == {Lower(s) : s \in CandidateSkillsArray(candidate)}
          intersection == Cardinality(job_skills \cap candidate_skills)
          union == Cardinality(job_skills \cup candidate_skills)
      IN IF job_skills = {} \/ candidate_skills = {}
         THEN 0
         ELSE IF union = 0 THEN 0 ELSE (Scale * intersection) \div union

\* The embedding calculate_score takes from a row, None when there is no row.
EmbeddingOrNone(row) == IF row.present THEN row.embedding ELSE <<>>

\* calculate_score raises when both embeddings are there and differ in length.
CalculateScoreRaises(candidate, job) ==
    /\ EmbeddingOrNone(job) # <<>>
    /\ EmbeddingOrNone(candidate) # <<>>
    /\ DotRaises(EmbeddingOrNone(job), EmbeddingOrNone(candidate))

\* JobCandidateMatch.calculate_score called without arguments: the row after
\* the call and the value returned.  now is datetime.utcnow().
CalculateScore(self, candidate, job, now) ==
    LET job_embedding == EmbeddingOrNone(job)
        candidate_embedding == EmbeddingOrNone(candidate)
    IN IF job_embedding = <<>> \/ candidate_embedding = <<>>
       THEN [self |-> self, ret |-> CalculateSkillMatchScore(candidate, job)]
       ELSE
         LET embedding_similarity ==
                 CosineSimilarity(job_embedding, candidate_embedding)
             embedding_score ==
                 (embedding_similarity * EmbeddingWeight) \div WeightUnit
             skill_score ==
                 (CalculateSkillMatchScore(candidate, job) * SkillWeight)
                     \div WeightUnit
             total_score == embedding_score + skill_score
         IN [self |-> [self EXCEPT
                         !.score = total_score,
                         !.match_data =
                             [embedding_similarity |-> embedding_similarity,
                              skill_match_score |-> skill_score,
                              total_score |-> total_score,
                              last_calculated_at |-> now]],
             ret |-> total_score]

\* One candidate and one job scored once by both implementations, each on a
\* new row of its table.
TwinInputs == ScoreInputs \cup {NoInput}

ScoreTwin(inp) ==
    /\ twin = NoTwin
    /\ ~CalculateMatchScoreRaises(inp.candidate, inp.job)
    /\ ~CalculateScoreRaises(inp.candidate, inp.job)
    /\ LET a == CalculateMatchScore(NewMatch(1, 1, 1, clock),
                                    inp.candidate, inp.job, clock)
           b == CalculateScore(NewJobCandidateMatch, inp.candidate, inp.job, clock)
       IN twin' = [scored |-> TRUE, inp |-> inp,
                   match |-> a.self, match_ret |-> a.ret,
                   jcm |-> b.self, jcm_ret |-> b.ret]
    /\ UNCHANGED <<matchVars, candidates, jobs, cand>>

\* Both implementations raise on the inputs; the rows are not scored.
ScoreTwinRaises(inp) ==
    /\ twin = NoTwin
    /\ CalculateMatchScoreRaises(inp.candidate, inp.job)
    /\ CalculateScoreRaises(inp.candidate, inp.job)
    /\ twin' = [scored |-> FALSE, inp |-> inp]
    /\ UNCHANGED <<matchVars, candidates, jobs, cand>>

TwinNext ==
    \/ \E inp \in TwinInputs : ScoreTwin(inp)
    \/ \E inp \in TwinInputs : ScoreTwinRaises(inp)

TwinSpec == Init /\ [][TwinNext]_vars

\* The pair was scored by both implementations.
TwinScored == twin # NoTwin /\ twin.scored

\* C23: for the same candidate skills, job skills and embeddings,
\* calculate_score and calculate_match_score return the same score and leave
\* the same score stored on their row, on the full path and on the fallback.
C23_Original ==
    TwinScored =>
        /\ twin.jcm_ret = twin.match_ret
        /\ twin.jcm.score = twin.match.match_score

\* C27: after calculate_score returns, the score of the row is the returned
\* value, on every path, the one with a missing embedding included.
C27_Original == TwinScored => twin.jcm.score = twin.jcm_ret

\* The inputs with every skill name case-folded and trimmed.
NormalizedInput(inp) ==
    [candidate |-> [inp.candidate EXCEPT !.skills_array = NormalizedNames(@)],
     job |-> [inp.job EXCEPT !.required_skills = NormalizedNames(@)]]

\* C24: skill names are compared after case-folding and trimming: the skill
\* overlap stored for a candidate and a job is the overlap of the same lists
\* with every name, the candidate's and the job's alike, already lower-case
\* and without surrounding whitespace.
C24_Original ==
    \A r \in matches :
        r.skills_match_score =
            CalculateSkillsMatch(NormalizedInput(InputOf(r)).candidate,
                                 NormalizedInput(InputOf(r)).job)

C25_Step ==
    (Completes /\ lastOp'.op = "transition" /\ lastOp'.result = "InvalidTransition")
        => /\ matches' = matches
           /\ history' = history
           /\ nextId' = nextId
           /\ \E r \in matches : r.id = lastOp'.id /\ r.status = lastOp'.from

\* C25: a transition call that fails with InvalidTransition changes nothing:
\* the status, updated_at and score fields of the record (and every other
\* record) and the history log are after the call what they were before it.
C25_FailedTransitionChangesNothing == [][C25_Step]_vars

\* C25 witness: a transition of a rejected record to reviewed failed with
\* InvalidTransition; the record is still rejected, holds its score, and the
\* history has the entries of the computation and of the rejection only.
C25_Witness ==
    /\ lastOp.op = "transition" /\ lastOp.result = "InvalidTransition"
    /\ lastOp.from = "rejected" /\ lastOp.to = "reviewed"
    /\ \E r \in matches :
          /\ r.id = lastOp.id
          /\ r.status = "rejected"
          /\ r.match_score > 0
          /\ Len(EntriesOf(r.id)) = 2

\* The entries of a record that record a change of status, oldest first.
StatusEntriesOf(id) ==
    SelectSeq(history, LAMBDA e : e.match_id = id /\ e.new_status # NoStatus)

\* The entries chain: each previous value is the new value of the entry
\* before, and the first previous value is the one the record started with.
ScoreChain(log) ==
    \A k \in 1..Len(log) :
        log[k].old_score = IF k = 1 THEN NoScore ELSE log[k - 1].new_score

StatusChain(log) ==
    \A k \in 1..Len(log) :
        log[k].old_status = IF k = 1 THEN "new" ELSE log[k - 1].new_status

\* C26: the history of a record agrees with its live fields: the new_status
\* of its latest status entry is its status (new when it has none), the
\* new_score of its latest score entry is its match_score, and every entry's
\* previous score or status is the value the record held just before that
\* entry was written, so the entries chain from the record's creation.
C26_HistoryAgreesWithRecord ==
    \A r \in matches :
        LET scores == ScoreEntriesOf(r.id)
            statuses == StatusEntriesOf(r.id)
        IN /\ Len(scores) >= 1
           /\ scores[Len(scores)].new_score = r.match_score
           /\ r.status = IF statuses = <<>> THEN "new"
                         ELSE statuses[Len(statuses)].new_status
           /\ ScoreChain(scores)
           /\ StatusChain(statuses)

\* C26 witness: a record was scored, moved to reviewed and scored again with
\* another result: its two score entries and its status entry chain and end
\* in the live score and status.
C26_Witness ==
    \E r \in matches :
        LET scores == ScoreEntriesOf(r.id)
            statuses == StatusEntriesOf(r.id)
        IN /\ Len(scores) = 2 /\ Len(statuses) = 1
           /\ scores[1].new_score # scores[2].new_score
           /\ scores[2].old_score = scores[1].new_score
           /\ scores[2].new_score = r.match_score
           /\ statuses[1].old_status = "new"
           /\ statuses[1].new_status = "reviewed"
           /\ r.status = "reviewed"
           /\ AllIdle

\* ------------------------------------------ candidate processing status
MaxRequests == 4

\* Candidate._status_transitions without the retry of failed candidates.
StatusTransitionsWithoutRetry ==
    [pending |-> {"processing"}, processing |-> {"complete", "failed"},
     complete |-> {"pending"}, failed |-> {}]

\* Candidate._status_transitions
StatusTransitions ==
    [pending |-> {"processing"}, processing |-> {"complete", "failed"},
     complete |-> {"pending"}, failed |-> {"pending"}]

\* Candidate.is_valid_transition
IsValidTransition(self, new_status) ==
    IF self.processing_status \notin DOMAIN StatusTransitions
    THEN FALSE
    ELSE new_status \in StatusTransitions[self.processing_status]

\* A row of candidate_processing_history.
ProcessingHistoryEntry(from_status, to_status, error_message) ==
    [from_status |-> from_status, to_status |-> to_status,
     error_message |-> error_message, duration |-> 0]

\* add_status_history recording the two statuses the wrong way round.
AddStatusHistorySwapped(self, from_status, to_status, error_message) ==
    [self EXCEPT !.processing_history =
        Append(@, ProcessingHistoryEntry(to_status, from_status, error_message))]

\* Candidate.add_status_history
AddStatusHistory(self, from_status, to_status, error_message) ==
    [self EXCEPT !.processing_history =
        Append(@, ProcessingHistoryEntry(from_status, to_status, error_message))]

\* Candidate.transition_to: the candidate after the call; raised tells
\* whether the call raised ValueError.
TransitionTo(self, new_status, error_message) ==
    LET called == [self EXCEPT
                     !.request = [new_status |-> new_status,
                                  error_message |-> error_message]]
    IN IF ~IsValidTransition(self, new_status)
       THEN [called EXCEPT !.raised = TRUE]
       ELSE
         LET old_status == self.processing_status
             moved == [called EXCEPT
                         !.raised = FALSE,
                         !.processing_status = new_status,
                         !.error_message =
                             IF new_status = "failed" THEN error_message
                             ELSE IF new_status = "pending" /\ old_status = "failed"
                                  THEN NoMessage
                                  ELSE @]
         IN AddStatusHistory(moved, old_status, new_status, error_message)

\* status_transitions of add_status_transition_methods
InstalledStatusTransitions ==
    [pending |-> {"processing"}, processing |-> {"complete", "failed"},
     complete |-> {"pending"}, failed |-> {"pending"}]

\* is_valid_transition of add_status_transition_methods
InstalledIsValidTransition(self, new_status) ==
    IF self.processing_status \notin DOMAIN InstalledStatusTransitions
    THEN FALSE
    ELSE new_status \in InstalledStatusTransitions[self.processing_status]

\* add_status_history of add_status_transition_methods; the entry added to
\* the session and the one appended to processing_history are one row.
InstalledAddStatusHistory(self, from_status, to_status, error_message) ==
    [self EXCEPT !.processing_history =
        Append(@, ProcessingHistoryEntry(from_status, to_status, error_message))]

\* transition_to of add_status_transition_methods
InstalledTransitionTo(self, new_status, error_message, updated_by_id) ==
    LET called == [self EXCEPT
                     !.request = [new_status |-> new_status,
                                  error_message |-> error_message]]
    IN IF ~InstalledIsValidTransition(self, new_status)
       THEN [called EXCEPT !.raised = TRUE]
       ELSE
         LET old_status == self.processing_status
             moved == [called EXCEPT
                         !.raised = FALSE,
                         !.processing_status = new_status,
                         !.error_message =
                             IF new_status = "failed" THEN error_message ELSE @,
                         !.status_updated_by =
                             IF updated_by_id # NoUser THEN updated_by_id ELSE @]
         IN InstalledAddStatusHistory(moved, old_status, new_status, error_message)

\* The statuses a candidate row starts with and the arguments of the calls:
\* the four processing statuses, one that is none of them, and None for a
\* candidate not yet flushed; no error message or one.
ProcessingStatuses == {"pending", "processing", "complete", "failed"}
StartStatuses == ProcessingStatuses \cup {"archived", NoStatus}
RequestStatuses == ProcessingStatuses \cup {"archived"}
StartMessages == {NoMessage, "stale"}
RequestMessages == {NoMessage, "boom"}

\* One transition_to request made to both implementations, each on its own
\* copy of the candidate; updated_by_id, which only one of them takes, is
\* left at its default.
CandidateTransitionTo(new_status, error_message) ==
    /\ ops < MaxRequests
    /\ ops' = ops + 1
    /\ cand' = [i \in Implementations |->
                  IF i = "Candidate"
                  THEN TransitionTo(cand[i], new_status, error_message)
                  ELSE InstalledTransitionTo(cand[i], new_status, error_message,
                                             NoUser)]
    /\ UNCHANGED <<matches, nextId, history, clock, pc, call, lastOp, stored,
                   lastInput, candidates, jobs, twin>>

CandidateInit ==
    /\ MatchInit
    /\ twin = NoTwin
    /\ \E s \in StartStatuses, m \in StartMessages :
          cand = [i \in Implementations |-> NewCandidate(s, m)]

CandidateNext ==
    \E s \in RequestStatuses, m \in RequestMessages : CandidateTransitionTo(s, m)

CandidateSpec == CandidateInit /\ [][CandidateNext]_vars

\* The transitions accepted.
AcceptedPairs ==
    { <<"pending", "processing">>, <<"processing", "complete">>,
      <<"processing", "failed">>, <<"complete", "pending">>,
      <<"failed", "pending">> }

C28_Step ==
    \A i \in Implementations :
        LET c == cand[i]
            c2 == cand'[i]
        IN ops' = ops + 1 =>
              IF <<c.processing_status, c2.request.new_status>> \in AcceptedPairs
              THEN /\ ~c2.raised
                   /\ c2.processing_status = c2.request.new_status
              ELSE /\ c2.raised
                   /\ c2.processing_status = c.processing_status
                   /\ c2.error_message = c.error_message
                   /\ c2.processing_history = c.processing_history

\* C28: transition_to accepts exactly pending->processing,
\* processing->complete, processing->failed, complete->pending and
\* failed->pending; for every other pair of current and new status (a current
\* status that is none of the four and a transition to the same status
\* included) it raises ValueError, leaves processing_status and error_message
\* as they were and adds no processing-history entry.
C28_TransitionToTable == [][C28_Step]_vars

\* C28 witness: a failed candidate with an error message was asked to move to
\* failed again: the call raised, the status, the message and the two history
\* entries are as before.
C28_Witness ==
    LET c == cand["Candidate"]
    IN /\ c.raised
       /\ c.request.new_status = "failed"
       /\ c.processing_status = "failed"
       /\ c.error_message = "boom"
       /\ c.request.error_message = NoMessage
       /\ Len(c.processing_history) = 2

C29_Step ==
    \A i \in Implementations :
        LET c == cand[i]
            c2 == cand'[i]
        IN (ops' = ops + 1 /\ ~c2.raised) =>
              /\ Len(c2.processing_history) = Len(c.processing_history) + 1
              /\ SubSeq(c2.processing_history, 1, Len(c.processing_history))
                    = c.processing_history
              /\ LET e == c2.processing_history[Len(c2.processing_history)]
                 IN /\ e.from_status = c.processing_status
                    /\ e.to_status = c2.processing_status
                    /\ e.to_status = c2.request.new_status

\* The last entry ends in the current status and the entries chain.
C29_Chain ==
    \A i \in Implementations :
        LET h == cand[i].processing_history
        IN /\ h # <<>> => h[Len(h)].to_status = cand[i].processing_status
           /\ \A k \in 2..Len(h) : h[k].from_status = h[k - 1].to_status

\* C29: every successful transition_to adds exactly one processing-history
\* entry, from the processing_status before the call to the one after it; so
\* after any sequence of transitions the to_status of the last entry is the
\* current processing_status and each entry's from_status is the to_status
\* of the entry before it.
C29_HistoryChains == []C29_Chain /\ [][C29_Step]_vars

\* C29 witness: a candidate went pending -> processing -> failed -> pending
\* and has exactly these three entries.
C29_Witness ==
    LET h == cand["installed"].processing_history
    IN /\ Len(h) = 3
       /\ h[1].from_status = "pending" /\ h[1].to_status = "processing"
       /\ h[2].from_status = "processing" /\ h[2].to_status = "failed"
       /\ h[3].from_status = "failed" /\ h[3].to_status = "pending"
       /\ cand["installed"].processing_status = "pending"
       /\ ~cand["installed"].raised

\* C30: the two implementations of transition_to are equivalent: after the
\* same requests from the same start they have accepted and rejected the same
\* requests and hold the same processing_status and the same error_message.
C30_Original ==
    /\ cand["Candidate"].raised = cand["installed"].raised
    /\ cand["Candidate"].processing_status = cand["installed"].processing_status
    /\ cand["Candidate"].error_message = cand["installed"].error_message

====
